---- MODULE Spec2Model ----
(***************************************************************************)
(* Four-way traffic intersection of src/traffic_controller.py: one         *)
(* Intersection shared by four TrafficSignal threads, driven by a          *)
(* TrafficController.  One intersection is modelled (intersections share   *)
(* nothing).  Time is abstracted: a sleep is a state in which the thread   *)
(* rests, and the starvation deadline of wait_for_turn is a flag that the  *)
(* clock may raise while the thread waits.                                 *)
(***************************************************************************)
EXTENDS Integers, Sequences, FiniteSets, TLC

VARIABLES
    ctrl_running,     \* TrafficController.running
    failure,          \* an exception has propagated out of start()
    pc,               \* per signal thread: its position in run()
    state,            \* TrafficSignal.state
    running,          \* TrafficSignal.running
    expired,          \* per thread: time.time() - start_wait > timeout
    local_em,         \* per thread: the EmergencyVehicle its peek holds (0 = None)
    cycle_count,      \* TrafficSignal.cycle_count
    green_time,       \* per thread: the green time computed for the cycle (1/100 time unit)
    active_directions,\* Intersection.active_directions (a list)
    green_semaphore,  \* free tokens of Intersection.green_semaphore
    vehicles,         \* every EmergencyVehicle created, in creation order; the index is its timestamp
    emergency_queue,  \* indices of the vehicles now inside Intersection.emergency_queue
    traffic_density,  \* Intersection.traffic_density
    stats,            \* Intersection.stats
    event_log,        \* Intersection.event_log
    counting,         \* whether statistics are recorded in this behaviour
    logging,          \* whether the contents of the event log are recorded in this behaviour
    log_call,         \* per caller: the log_event call it is inside, after its put_nowait found the log full
    vp_local,         \* per thread: the value of stats.vehicles_passed it loaded for its += (line 306)
    last_call,        \* the last call made on the TrafficController by its user, and for stop() what it reported on return
    stop_admits,      \* per thread: the admissions it has made since its running flag was cleared
    tracking          \* whether the admissions after a stop are recorded in this behaviour

vars == <<ctrl_running, failure, pc, state, running, expired, local_em,
          cycle_count, green_time, active_directions, green_semaphore, vehicles,
          emergency_queue, traffic_density, stats, event_log, counting, vp_local,
          last_call, logging, log_call, stop_admits, tracking>>

----------------------------------------------------------------------------
(* Bounds of the model *)

\* emergency vehicles dispatched in one behaviour of Spec
MaxEmergencies == 1
\* emergency vehicles dispatched in one behaviour of QueueSpec and PendingSpec
MaxQueued == 2
\* emergency vehicles dispatched in one behaviour of FairSpec, FairStopSpec
\* and StatSpec
MaxFair == 1
\* admissions recorded in a behaviour that counts statistics
MaxCycles == 2
\* denied polls recorded in a behaviour that counts statistics
MaxPreventions == 1
\* densities outside 0..100 that TimingSpec tries on either side
DensityMargin == 2
\* capacity of the event log in a behaviour that records it (100 in the source)
LogMax == 1
\* signal threads whose loop raises an exception in one behaviour of FailSpec
MaxFailures == 1

(* Program constants *)

\* threading.Semaphore(2)
SemaphoreTokens == 2
\* TrafficSignal base_green_time = 5.0
BaseGreenTime == 5
\* random.randint(3, 8)
VehiclesLo == 3
VehiclesHi == 8

Directions == {"NORTH", "SOUTH", "EAST", "WEST"}

\* the threads that call log_event: the four signals and the thread of the
\* user of the TrafficController
Callers == Directions \cup {"MAIN"}

\* Python's None, where a vehicle (a positive index) is expected
None == 0

----------------------------------------------------------------------------
(* Pure helpers of Intersection *)

get_opposing_direction(d) ==
    CASE d = "NORTH" -> "SOUTH"
      [] d = "SOUTH" -> "NORTH"
      [] d = "EAST"  -> "WEST"
      [] d = "WEST"  -> "EAST"

\* get_conflicting_directions with the opposite direction taken for the
\* conflicting one
get_conflicting_directions_opposing(d) == {get_opposing_direction(d)}

get_conflicting_directions(d) ==
    CASE d = "NORTH" -> {"EAST", "WEST"}
      [] d = "SOUTH" -> {"EAST", "WEST"}
      [] d = "EAST"  -> {"NORTH", "SOUTH"}
      [] d = "WEST"  -> {"NORTH", "SOUTH"}

InList(x, s) == \E i \in DOMAIN s : s[i] = x

\* list.remove(x): drops the first occurrence
RECURSIVE ListRemove(_, _)
ListRemove(s, x) ==
    IF s = <<>> THEN <<>>
    ELSE IF Head(s) = x THEN Tail(s)
    ELSE <<Head(s)>> \o ListRemove(Tail(s), x)

\* PriorityQueue.get_nowait(): the entry with the smallest priority; the
\* priority is -time.time() of the dispatch, so it is the latest dispatched
QueueHead(q) == CHOOSE e \in q : \A f \in q : f <= e

\* has_emergency_vehicle's return value for the entry e it took and put back
PeekResult(e) == IF e # None /\ ~vehicles[e].handled THEN e ELSE None

\* handle_emergency without the test of the vehicle's direction
ShouldHandleAnyDirection(d, e) ==
    e # None /\ ~vehicles[e].handled

\* handle_emergency's test of the peeked vehicle
ShouldHandle(d, e) ==
    e # None /\ vehicles[e].direction = d /\ ~vehicles[e].handled

\* can_proceed's emergency test
EmergencyBlocks(d, e) == e # None /\ vehicles[e].direction # d

\* can_proceed's conflict test
ConflictActive(d) ==
    \E c \in get_conflicting_directions(d) : InList(c, active_directions)

\* a can_proceed that admits a direction only into an empty intersection
can_proceed_exclusive(d, e) ==
    IF EmergencyBlocks(d, e) THEN FALSE
    ELSE IF ConflictActive(d) THEN FALSE
    ELSE IF Len(active_directions) = 0 THEN TRUE
    ELSE FALSE

\* a can_proceed that makes no emergency test
can_proceed_no_emergency(d, e) ==
    IF ConflictActive(d) THEN FALSE
    ELSE IF InList(get_opposing_direction(d), active_directions) THEN TRUE
    ELSE IF Len(active_directions) = 0 THEN TRUE
    ELSE IF Len(active_directions) < 2 THEN TRUE
    ELSE FALSE

\* can_proceed(direction) once the peek has returned e
can_proceed(d, e) ==
    IF EmergencyBlocks(d, e) THEN FALSE
    ELSE IF ConflictActive(d) THEN FALSE
    ELSE IF InList(get_opposing_direction(d), active_directions) THEN TRUE
    ELSE IF Len(active_directions) = 0 THEN TRUE
    ELSE IF Len(active_directions) < 2 THEN TRUE
    ELSE FALSE

\* an adaptive green time that shrinks as the density grows
get_adaptive_green_time_inverted(d, base) == base * (150 - traffic_density[d])

\* an adaptive green time whose multiplier is 1.0 + density / 100
get_adaptive_green_time_unscaled(d, base) == base * (100 + traffic_density[d])

\* get_adaptive_green_time, in 1/100 of a time unit: the multiplier
\* 0.5 + density / 100.0 is 50 + density hundredths
get_adaptive_green_time(d, base) == base * (50 + traffic_density[d])

Max(a, b) == IF a >= b THEN a ELSE b

Min(a, b) == IF a <= b THEN a ELSE b

\* a caller that is inside no log_event call
IdleCall == [stage |-> "idle", msg |-> <<>>, locked |-> FALSE]

NotLogging(c) == log_call[c].stage = "idle"

\* the RLock is held between the two halves of can_proceed's peek, and by
\* enter_intersection and exit_intersection until their log_event returns
LockFree ==
    \A d \in Directions :
        pc[d] # "cp_put" /\ ~(log_call[d].stage # "idle" /\ log_call[d].locked)

\* log_event(msg) called by c, with the lock held or not: put_nowait stores
\* the entry, or finds the log full and leaves c in the except branch
Log(c, msg, locked) ==
    IF ~logging THEN UNCHANGED <<event_log, log_call>>
    ELSE IF Len(event_log) < LogMax
    THEN /\ event_log' = Append(event_log, msg)
         /\ UNCHANGED log_call
    ELSE /\ log_call' = [log_call EXCEPT ![c] =
                            [stage |-> "get", msg |-> msg, locked |-> locked]]
         /\ UNCHANGED event_log

\* what the caller does when its log_event returns: stop() goes on to
\* signal.stop() for every signal, every other caller has nothing left in
\* the step
AfterLog(c) ==
    running' = IF c = "MAIN" /\ last_call = "stop"
               THEN [d \in Directions |-> FALSE]
               ELSE running

\* log_event, except branch: get_nowait removes the oldest entry; on an
\* empty log it raises and the bare except drops the new entry
LogGet(c) ==
    /\ log_call[c].stage = "get"
    /\ IF event_log = <<>>
       THEN /\ log_call' = [log_call EXCEPT ![c] = IdleCall]
            /\ AfterLog(c)
            /\ UNCHANGED event_log
       ELSE /\ event_log' = Tail(event_log)
            /\ log_call' = [log_call EXCEPT ![c].stage = "put"]
            /\ UNCHANGED running
    /\ UNCHANGED <<ctrl_running, failure, pc, state, expired, local_em, cycle_count,
                   green_time, active_directions, green_semaphore, vehicles,
                   emergency_queue, traffic_density, stats, counting, logging, tracking, vp_local,
                   last_call, stop_admits>>

\* log_event, except branch: put_nowait stores the new entry; on a log that
\* is full again it raises and the bare except drops the new entry
LogPut(c) ==
    /\ log_call[c].stage = "put"
    /\ event_log' = IF Len(event_log) < LogMax
                    THEN Append(event_log, log_call[c].msg)
                    ELSE event_log
    /\ log_call' = [log_call EXCEPT ![c] = IdleCall]
    /\ AfterLog(c)
    /\ UNCHANGED <<ctrl_running, failure, pc, state, expired, local_em, cycle_count,
                   green_time, active_directions, green_semaphore, vehicles,
                   emergency_queue, traffic_density, stats, counting, logging, tracking, vp_local,
                   last_call, stop_admits>>

\* one turn of the drain loop of the monitoring page (src/app.py):
\* event_log.get_nowait() while the log is not empty
Drain ==
    /\ logging
    /\ NotLogging("MAIN")
    /\ event_log # <<>>
    /\ event_log' = Tail(event_log)
    /\ UNCHANGED <<ctrl_running, failure, pc, state, running, expired, local_em,
                   cycle_count, green_time, active_directions, green_semaphore, vehicles,
                   emergency_queue, traffic_density, stats, counting, logging, tracking, vp_local,
                   last_call, log_call, stop_admits>>


Count(new) == stats' = IF counting THEN new ELSE stats

----------------------------------------------------------------------------
(* Initial state: a constructed TrafficController, start() not yet called *)

Init0 ==
    /\ ctrl_running = FALSE
    /\ failure = FALSE
    /\ pc = [d \in Directions |-> "idle"]
    /\ state = [d \in Directions |-> "RED"]
    /\ running = [d \in Directions |-> TRUE]
    /\ expired = [d \in Directions |-> FALSE]
    /\ local_em = [d \in Directions |-> None]
    /\ cycle_count = [d \in Directions |-> 0]
    /\ green_time = [d \in Directions |-> 0]
    /\ active_directions = <<>>
    /\ green_semaphore = SemaphoreTokens
    /\ vehicles = <<>>
    /\ emergency_queue = {}
    /\ traffic_density = [d \in Directions |-> 0]
    /\ stats = [total_cycles |-> 0, total_wait_time |-> 0, emergency_responses |-> 0,
                deadlock_preventions |-> 0, vehicles_passed |-> 0]
    /\ event_log = <<>>
    /\ log_call = [c \in Callers |-> IdleCall]
    /\ vp_local = [d \in Directions |-> 0]
    /\ last_call = "none"
    /\ stop_admits = [d \in Directions |-> 0]

Init == Init0 /\ counting = FALSE /\ logging = FALSE /\ tracking = FALSE

\* the same state with the statistics recorded
CountingInit == Init0 /\ counting = TRUE /\ logging = FALSE /\ tracking = FALSE

\* the same state with the event log recorded
LoggingInit == Init0 /\ counting = FALSE /\ logging = TRUE /\ tracking = FALSE

\* the same state with the admissions after a stop recorded
TrackingInit == Init0 /\ counting = FALSE /\ logging = FALSE /\ tracking = TRUE

----------------------------------------------------------------------------
(* Intersection operations *)

\* enter_intersection that takes a token without waiting for one to be free
enter_intersection_no_wait(d, is_emergency) ==
    /\ LockFree
    /\ counting => stats.total_cycles < MaxCycles
    /\ green_semaphore' = green_semaphore - 1
    /\ active_directions' = Append(active_directions, d)
    /\ Log(d, <<IF is_emergency THEN "EMERGENCY" ELSE "GREEN", d>>, TRUE)
    /\ Count([stats EXCEPT
                !.total_cycles = @ + 1,
                !.emergency_responses = IF is_emergency THEN @ + 1 ELSE @])
    /\ stop_admits' = [stop_admits EXCEPT ![d] = IF tracking /\ ~running[d] THEN @ + 1 ELSE @]

\* enter_intersection that counts every admission as an emergency response
enter_intersection_all_emergency(d, is_emergency) ==
    /\ green_semaphore > 0
    /\ LockFree
    /\ counting => stats.total_cycles < MaxCycles
    /\ green_semaphore' = green_semaphore - 1
    /\ active_directions' = Append(active_directions, d)
    /\ Log(d, <<IF is_emergency THEN "EMERGENCY" ELSE "GREEN", d>>, TRUE)
    /\ Count([stats EXCEPT
                !.total_cycles = @ + 1,
                !.emergency_responses = @ + 1])
    /\ stop_admits' = [stop_admits EXCEPT ![d] = IF tracking /\ ~running[d] THEN @ + 1 ELSE @]

\* enter_intersection that counts an emergency admission as an emergency
\* response only, not as a cycle
enter_intersection_separate_counts(d, is_emergency) ==
    /\ green_semaphore > 0
    /\ LockFree
    /\ counting => stats.total_cycles < MaxCycles
    /\ green_semaphore' = green_semaphore - 1
    /\ active_directions' = Append(active_directions, d)
    /\ Log(d, <<IF is_emergency THEN "EMERGENCY" ELSE "GREEN", d>>, TRUE)
    /\ Count([stats EXCEPT
                !.total_cycles = IF is_emergency THEN @ ELSE @ + 1,
                !.emergency_responses = IF is_emergency THEN @ + 1 ELSE @])
    /\ stop_admits' = [stop_admits EXCEPT ![d] = IF tracking /\ ~running[d] THEN @ + 1 ELSE @]

\* enter_intersection(direction, is_emergency)
enter_intersection(d, is_emergency) ==
    /\ green_semaphore > 0
    /\ LockFree
    /\ counting => stats.total_cycles < MaxCycles
    /\ green_semaphore' = green_semaphore - 1
    /\ active_directions' = Append(active_directions, d)
    /\ Log(d, <<IF is_emergency THEN "EMERGENCY" ELSE "GREEN", d>>, TRUE)
    /\ Count([stats EXCEPT
                !.total_cycles = @ + 1,
                !.emergency_responses = IF is_emergency THEN @ + 1 ELSE @])
    /\ stop_admits' = [stop_admits EXCEPT ![d] = IF tracking /\ ~running[d] THEN @ + 1 ELSE @]

\* exit_intersection that keeps the capacity token
exit_intersection_keeping_token(d) ==
    /\ LockFree
    /\ active_directions' = ListRemove(active_directions, d)
    /\ IF InList(d, active_directions) THEN Log(d, <<"RED", d>>, TRUE) ELSE UNCHANGED <<event_log, log_call>>
    /\ UNCHANGED green_semaphore

\* exit_intersection(direction)
exit_intersection(d) ==
    /\ LockFree
    /\ active_directions' = ListRemove(active_directions, d)
    /\ IF InList(d, active_directions) THEN Log(d, <<"RED", d>>, TRUE) ELSE UNCHANGED <<event_log, log_call>>
    /\ green_semaphore' = green_semaphore + 1

\* add_emergency_vehicle that also turns every other signal to RED
add_emergency_vehicle_preempting(d) ==
    /\ vehicles' = Append(vehicles, [direction |-> d,
                                     vehicle_id |-> stats.emergency_responses + 1,
                                     handled |-> FALSE])
    /\ emergency_queue' = emergency_queue \cup {Len(vehicles) + 1}
    /\ Log("MAIN", <<"APPROACHING", d>>, FALSE)
    /\ state' = [c \in Directions |-> IF c = d THEN state[c] ELSE "RED"]
    /\ UNCHANGED <<ctrl_running, failure, pc, running, expired, local_em,
                   cycle_count, green_time, active_directions, green_semaphore,
                   traffic_density, stats, counting, logging, tracking, vp_local, last_call, stop_admits>>

\* add_emergency_vehicle(direction), reached through trigger_emergency
add_emergency_vehicle(d) ==
    /\ vehicles' = Append(vehicles, [direction |-> d,
                                     vehicle_id |-> stats.emergency_responses + 1,
                                     handled |-> FALSE])
    /\ emergency_queue' = emergency_queue \cup {Len(vehicles) + 1}
    /\ Log("MAIN", <<"APPROACHING", d>>, FALSE)
    /\ UNCHANGED <<ctrl_running, failure, pc, state, running, expired, local_em,
                   cycle_count, green_time, active_directions, green_semaphore,
                   traffic_density, stats, counting, logging, tracking, vp_local, last_call, stop_admits>>

\* update_traffic_density that stores the value as given
update_traffic_density_unclamped(d, v) ==
    /\ LockFree
    /\ traffic_density' = [traffic_density EXCEPT ![d] = v]

\* update_traffic_density(direction, density)
update_traffic_density(d, v) ==
    /\ LockFree
    /\ traffic_density' = [traffic_density EXCEPT ![d] = Max(0, Min(100, v))]

----------------------------------------------------------------------------
(* TrafficController.start / stop *)

\* start() on a controller whose threads were never started: starts the four
\* threads (each begins with a random sleep of up to 2 s), logs STARTED
Start ==
    /\ NotLogging("MAIN")
    /\ ~ctrl_running
    /\ \A d \in Directions : pc[d] = "idle"
    /\ ctrl_running' = TRUE
    /\ pc' = [d \in Directions |-> "loop"]
    /\ Log("MAIN", <<"STARTED", "ALL">>, FALSE)
    /\ last_call' = "start"
    /\ UNCHANGED <<failure, state, running, expired, local_em, cycle_count, green_time,
                   active_directions, green_semaphore, vehicles, emergency_queue,
                   traffic_density, stats, counting, logging, tracking, vp_local, stop_admits>>

\* start() that launches the threads without looking at self.running
StartAgain ==
    /\ NotLogging("MAIN")
    /\ ctrl_running
    /\ failure' = TRUE
    /\ last_call' = "start_running"
    /\ UNCHANGED <<ctrl_running, pc, state, running, expired, local_em, cycle_count,
                   green_time, active_directions, green_semaphore, vehicles,
                   emergency_queue, traffic_density, stats, event_log, log_call, counting, logging, tracking, vp_local, stop_admits>>

\* start() while the controller is running: returns at once (line 367)
StartRunning ==
    /\ NotLogging("MAIN")
    /\ ctrl_running
    /\ last_call' = "start_running"
    /\ UNCHANGED <<ctrl_running, failure, pc, state, running, expired, local_em,
                   cycle_count, green_time, active_directions, green_semaphore, vehicles,
                   emergency_queue, traffic_density, stats, event_log, log_call, counting, logging, tracking, vp_local, stop_admits>>

\* start() after stop(): running is set, then Thread.start() of the first
\* signal raises RuntimeError (a thread can be started once) and start() fails
Restart ==
    /\ NotLogging("MAIN")
    /\ ~ctrl_running
    /\ \E d \in Directions : pc[d] # "idle"
    /\ ctrl_running' = TRUE
    /\ failure' = TRUE
    /\ last_call' = "restart"
    /\ UNCHANGED <<pc, state, running, expired, local_em, cycle_count, green_time,
                   active_directions, green_semaphore, vehicles, emergency_queue,
                   traffic_density, stats, event_log, log_call, counting, logging, tracking, vp_local, stop_admits>>

\* stop() that logs and clears the controller's flag but signals no thread
StopNoSignal ==
    /\ NotLogging("MAIN")
    /\ ctrl_running
    /\ ctrl_running' = FALSE
    /\ Log("MAIN", <<"STOPPING", "ALL">>, FALSE)
    /\ last_call' = "stop"
    /\ UNCHANGED <<failure, pc, state, running, expired, local_em, cycle_count,
                   green_time, active_directions, green_semaphore, vehicles,
                   emergency_queue, traffic_density, stats, counting, logging, tracking, vp_local, stop_admits>>

\* stop(): the STOPPING log line, then signal.stop() for every signal; the
\* bounded joins that follow change nothing.  A thread reads only its own
\* running flag, and the step by which it leaves its loop touches nothing
\* shared, so flagging the four signals one by one adds no behaviour
Stop ==
    /\ NotLogging("MAIN")
    /\ ctrl_running
    /\ ctrl_running' = FALSE
    /\ Log("MAIN", <<"STOPPING", "ALL">>, FALSE)
    /\ running' = IF logging /\ Len(event_log) >= LogMax
                  THEN running
                  ELSE [d \in Directions |-> FALSE]
    /\ last_call' = "stop"
    /\ UNCHANGED <<failure, pc, state, expired, local_em, cycle_count, green_time,
                   active_directions, green_semaphore, vehicles, emergency_queue,
                   traffic_density, stats, counting, logging, tracking, vp_local, stop_admits>>

\* the thread of d is at a place from which it sleeps for more than the 2 s
\* of a join before it tests its running flag again: the green sleep (2.5 s
\* or more) with the yellow sleep after it, or the 3 s emergency hold
LongSleep(d) == pc[d] \in {"vp_load", "vp_store", "green", "em_hold"}

\* stop() returns: every join(timeout=2.0) has ended, by the thread's end or
\* by the timeout, which needs a thread that outlasts it; stop() tests no
\* is_alive(), returns None and neither logs nor raises
StopReturn ==
    /\ NotLogging("MAIN")
    /\ last_call = "stop"
    /\ \/ \A d \in Directions : pc[d] = "done"
       \/ \E d \in Directions : LongSleep(d)
    /\ last_call' = "stop_returned"
    /\ UNCHANGED <<ctrl_running, failure, pc, state, running, expired, local_em,
                   cycle_count, green_time, active_directions, green_semaphore, vehicles,
                   emergency_queue, traffic_density, stats, event_log, log_call, counting,
                   logging, tracking, vp_local, stop_admits>>

\* stop() while the controller is not running: returns at once (line 380)
StopIdle ==
    /\ NotLogging("MAIN")
    /\ ~ctrl_running
    /\ last_call' = "stop_idle"
    /\ UNCHANGED <<ctrl_running, failure, pc, state, running, expired, local_em,
                   cycle_count, green_time, active_directions, green_semaphore, vehicles,
                   emergency_queue, traffic_density, stats, event_log, log_call, counting, logging, tracking, vp_local, stop_admits>>

----------------------------------------------------------------------------
(* TrafficSignal.run, one action per step of the thread *)

\* wait_for_turn is entered: start_wait = time.time()
BeginWait(d) ==
    /\ pc' = [pc EXCEPT ![d] = "wft"]
    /\ expired' = [expired EXCEPT ![d] = FALSE]
    /\ local_em' = [local_em EXCEPT ![d] = None]

\* a loop that goes on to handle_emergency without testing the running flag
LoopTopWithoutTest(d) ==
    /\ pc[d] = "loop"
    /\ NotLogging(d)
    /\ IF emergency_queue = {}
       THEN /\ BeginWait(d)
            /\ UNCHANGED emergency_queue
       ELSE /\ pc' = [pc EXCEPT ![d] = "he_put"]
            /\ local_em' = [local_em EXCEPT ![d] = QueueHead(emergency_queue)]
            /\ emergency_queue' = emergency_queue \ {QueueHead(emergency_queue)}
            /\ UNCHANGED expired
    /\ UNCHANGED <<ctrl_running, failure, state, running, cycle_count, green_time,
                   active_directions, green_semaphore, vehicles, traffic_density, stats,
                   event_log, log_call, counting, logging, tracking, vp_local, last_call, stop_admits>>

\* top of the while loop: the running test, then handle_emergency's peek
\* takes the head of the queue (or finds it empty and returns None)
LoopTop(d) ==
    /\ pc[d] = "loop"
    /\ NotLogging(d)
    /\ IF ~running[d]
       THEN /\ pc' = [pc EXCEPT ![d] = "done"]
            /\ UNCHANGED <<expired, local_em, emergency_queue>>
       ELSE IF emergency_queue = {}
       THEN /\ BeginWait(d)
            /\ UNCHANGED emergency_queue
       ELSE /\ pc' = [pc EXCEPT ![d] = "he_put"]
            /\ local_em' = [local_em EXCEPT ![d] = QueueHead(emergency_queue)]
            /\ emergency_queue' = emergency_queue \ {QueueHead(emergency_queue)}
            /\ UNCHANGED expired
    /\ UNCHANGED <<ctrl_running, failure, state, running, cycle_count, green_time,
                   active_directions, green_semaphore, vehicles, traffic_density, stats,
                   event_log, log_call, counting, logging, tracking, vp_local, last_call, stop_admits>>

\* handle_emergency: the peek puts the entry back; an unhandled vehicle of
\* this direction sends the signal to EMERGENCY, anything else to wait_for_turn
HandleEmergencyPut(d) ==
    /\ pc[d] = "he_put"
    /\ NotLogging(d)
    /\ emergency_queue' = emergency_queue \cup {local_em[d]}
    /\ IF ShouldHandle(d, PeekResult(local_em[d]))
       THEN /\ state' = [state EXCEPT ![d] = "EMERGENCY"]
            /\ pc' = [pc EXCEPT ![d] = "em_enter"]
            /\ UNCHANGED <<expired, local_em>>
       ELSE /\ BeginWait(d)
            /\ UNCHANGED state
    /\ UNCHANGED <<ctrl_running, failure, running, cycle_count, green_time,
                   active_directions, green_semaphore, vehicles, traffic_density, stats,
                   event_log, log_call, counting, logging, tracking, vp_local, last_call, stop_admits>>

\* handle_emergency: enter_intersection(direction, is_emergency=True)
EmergencyEnter(d) ==
    /\ pc[d] = "em_enter"
    /\ NotLogging(d)
    /\ enter_intersection(d, TRUE)
    /\ pc' = [pc EXCEPT ![d] = "em_hold"]
    /\ UNCHANGED <<ctrl_running, failure, state, running, expired, local_em,
                   cycle_count, green_time, vehicles, emergency_queue, traffic_density,
                   counting, logging, tracking, vp_local, last_call>>

\* handle_emergency that marks the request handled after its
\* exit_intersection
EmergencyHandledAfterExit(d) ==
    /\ pc[d] = "em_hold"
    /\ NotLogging(d)
    /\ exit_intersection(d)
    /\ vehicles' = [vehicles EXCEPT ![local_em[d]].handled = TRUE]
    /\ pc' = [pc EXCEPT ![d] = "loop"]
    /\ local_em' = [local_em EXCEPT ![d] = None]
    /\ UNCHANGED <<ctrl_running, failure, state, running, expired,
                   cycle_count, green_time, emergency_queue, traffic_density, stats,
                   counting, logging, tracking, vp_local, last_call, stop_admits>>

\* handle_emergency: after the 3 s hold, emergency.handled = True
EmergencyHandled(d) ==
    /\ pc[d] = "em_hold"
    /\ NotLogging(d)
    /\ vehicles' = [vehicles EXCEPT ![local_em[d]].handled = TRUE]
    /\ pc' = [pc EXCEPT ![d] = "em_exit"]
    /\ UNCHANGED <<ctrl_running, failure, state, running, expired, local_em,
                   cycle_count, green_time, active_directions, green_semaphore,
                   emergency_queue, traffic_density, stats, event_log, log_call, counting, logging, tracking, vp_local, last_call, stop_admits>>

\* handle_emergency that counts its iteration as a cycle
EmergencyExitCounting(d) ==
    /\ pc[d] = "em_exit"
    /\ NotLogging(d)
    /\ exit_intersection(d)
    /\ cycle_count' = [cycle_count EXCEPT ![d] = IF counting THEN @ + 1 ELSE @]
    /\ pc' = [pc EXCEPT ![d] = "loop"]
    /\ local_em' = [local_em EXCEPT ![d] = None]
    /\ UNCHANGED <<ctrl_running, failure, state, running, expired,
                   green_time, vehicles, emergency_queue, traffic_density, stats,
                   counting, logging, tracking, vp_local, last_call, stop_admits>>

\* handle_emergency: exit_intersection, return True, continue
EmergencyExit(d) ==
    /\ pc[d] = "em_exit"
    /\ NotLogging(d)
    /\ exit_intersection(d)
    /\ pc' = [pc EXCEPT ![d] = "loop"]
    /\ local_em' = [local_em EXCEPT ![d] = None]
    /\ UNCHANGED <<ctrl_running, failure, state, running, expired, cycle_count,
                   green_time, vehicles, emergency_queue, traffic_density, stats, counting, logging, tracking, vp_local, last_call, stop_admits>>

\* wait_for_turn without the starvation deadline: a denied poll always sleeps
PollOutcomeNoDeadline(d, e) ==
    /\ counting /\ ~EmergencyBlocks(d, e) /\ ConflictActive(d)
          => stats.deadlock_preventions < MaxPreventions
    /\ IF can_proceed(d, e)
       THEN /\ pc' = [pc EXCEPT ![d] = "g_enter"]
            /\ expired' = [expired EXCEPT ![d] = FALSE]
            /\ state' = [state EXCEPT ![d] = "GREEN"]
            /\ green_time' = [green_time EXCEPT ![d] =
                                 get_adaptive_green_time(d, BaseGreenTime)]
            /\ Count([stats EXCEPT !.total_wait_time = @ + (IF expired[d] THEN 1 ELSE 0)])
       ELSE /\ pc' = [pc EXCEPT ![d] = "wft"]
            /\ Count([stats EXCEPT !.deadlock_preventions =
                         IF ~EmergencyBlocks(d, e) /\ ConflictActive(d) THEN @ + 1 ELSE @])
            /\ UNCHANGED <<state, green_time, expired>>
    /\ UNCHANGED <<event_log, log_call>>

\* wait_for_turn, from the return of can_proceed's peek (e) to the end of the
\* loop body: can_proceed decides; on True, or on False past the deadline,
\* wait_for_turn returns True and run() computes the green time and shows
\* GREEN; otherwise the thread sleeps 0.1 s and polls again
PollOutcome(d, e) ==
    /\ counting /\ ~EmergencyBlocks(d, e) /\ ConflictActive(d)
          => stats.deadlock_preventions < MaxPreventions
    /\ IF can_proceed(d, e) \/ expired[d]
       THEN /\ pc' = [pc EXCEPT ![d] = "g_enter"]
            /\ expired' = [expired EXCEPT ![d] = FALSE]
            /\ state' = [state EXCEPT ![d] = "GREEN"]
            /\ green_time' = [green_time EXCEPT ![d] =
                                 get_adaptive_green_time(d, BaseGreenTime)]
       ELSE /\ pc' = [pc EXCEPT ![d] = "wft"]
            /\ UNCHANGED <<state, green_time, expired>>
    /\ IF can_proceed(d, e)
       THEN /\ Count([stats EXCEPT !.total_wait_time = @ + (IF expired[d] THEN 1 ELSE 0)])
            /\ UNCHANGED <<event_log, log_call>>
       ELSE /\ Count([stats EXCEPT !.deadlock_preventions =
                         IF ~EmergencyBlocks(d, e) /\ ConflictActive(d) THEN @ + 1 ELSE @])
            /\ IF expired[d] THEN Log(d, <<"TIMEOUT", d>>, FALSE) ELSE UNCHANGED <<event_log, log_call>>

\* wait_for_turn: the running test, then can_proceed takes the lock and its
\* peek takes the head of the queue; on an empty queue the call completes
WaitPoll(d) ==
    /\ pc[d] = "wft"
    /\ NotLogging(d)
    /\ LockFree
    /\ IF ~running[d]
       THEN /\ pc' = [pc EXCEPT ![d] = "done"]
            /\ expired' = [expired EXCEPT ![d] = FALSE]
            /\ UNCHANGED <<state, green_time, stats, event_log, log_call, local_em, emergency_queue>>
       ELSE IF emergency_queue = {}
       THEN /\ PollOutcome(d, None)
            /\ UNCHANGED <<local_em, emergency_queue>>
       ELSE /\ pc' = [pc EXCEPT ![d] = "cp_put"]
            /\ local_em' = [local_em EXCEPT ![d] = QueueHead(emergency_queue)]
            /\ emergency_queue' = emergency_queue \ {QueueHead(emergency_queue)}
            /\ UNCHANGED <<state, green_time, stats, event_log, log_call, expired>>
    /\ UNCHANGED <<ctrl_running, failure, running, cycle_count,
                   active_directions, green_semaphore, vehicles, traffic_density, counting, logging, tracking, vp_local, last_call, stop_admits>>

\* can_proceed: the peek puts the entry back and the call completes
WaitPollPut(d) ==
    /\ pc[d] = "cp_put"
    /\ NotLogging(d)
    /\ emergency_queue' = emergency_queue \cup {local_em[d]}
    /\ PollOutcome(d, PeekResult(local_em[d]))
    /\ local_em' = [local_em EXCEPT ![d] = None]
    /\ UNCHANGED <<ctrl_running, failure, running, cycle_count,
                   active_directions, green_semaphore, vehicles, traffic_density, counting, logging, tracking, vp_local, last_call, stop_admits>>

\* the clock passes the starvation deadline of a waiting thread
Tick(d) ==
    /\ pc[d] \in {"wft", "cp_put"}
    /\ ~expired[d]
    /\ expired' = [expired EXCEPT ![d] = TRUE]
    /\ UNCHANGED <<ctrl_running, failure, pc, state, running, local_em, cycle_count,
                   green_time, active_directions, green_semaphore, vehicles,
                   emergency_queue, traffic_density, stats, event_log, log_call, counting, logging, tracking, vp_local, last_call, stop_admits>>

\* GREEN phase: enter_intersection(direction)
GreenEnter(d) ==
    /\ pc[d] = "g_enter"
    /\ NotLogging(d)
    /\ enter_intersection(d, FALSE)
    /\ pc' = [pc EXCEPT ![d] = "vp_load"]
    /\ UNCHANGED <<ctrl_running, failure, state, running, expired, local_em,
                   cycle_count, green_time, vehicles, emergency_queue, traffic_density,
                   counting, logging, tracking, vp_local, last_call>>

\* stats.vehicles_passed += vehicles_passed, made outside the lock: the
\* thread first loads the counter
VehiclesLoad(d) ==
    /\ pc[d] = "vp_load"
    /\ NotLogging(d)
    /\ vp_local' = [vp_local EXCEPT ![d] = IF counting THEN stats.vehicles_passed ELSE @]
    /\ pc' = [pc EXCEPT ![d] = "vp_store"]
    /\ UNCHANGED <<ctrl_running, failure, state, running, expired, local_em, cycle_count,
                   green_time, active_directions, green_semaphore, vehicles,
                   emergency_queue, traffic_density, stats, event_log, log_call, counting, logging, tracking, last_call, stop_admits>>

\* ... then stores the loaded value plus random.randint(3, 8), and sleeps
\* for the green time
VehiclesStore(d) ==
    /\ pc[d] = "vp_store"
    /\ NotLogging(d)
    /\ \E n \in VehiclesLo..VehiclesHi :
          Count([stats EXCEPT !.vehicles_passed = vp_local[d] + n])
    /\ vp_local' = [vp_local EXCEPT ![d] = 0]
    /\ pc' = [pc EXCEPT ![d] = "green"]
    /\ UNCHANGED <<ctrl_running, failure, state, running, expired, local_em, cycle_count,
                   green_time, active_directions, green_semaphore, vehicles,
                   emergency_queue, traffic_density, event_log, log_call, counting, logging, tracking, last_call, stop_admits>>

\* after the green sleep (green_time is spent): YELLOW phase
GreenToYellow(d) ==
    /\ pc[d] = "green"
    /\ NotLogging(d)
    /\ state' = [state EXCEPT ![d] = "YELLOW"]
    /\ Log(d, <<"YELLOW", d>>, FALSE)
    /\ green_time' = [green_time EXCEPT ![d] = 0]
    /\ pc' = [pc EXCEPT ![d] = "yellow"]
    /\ UNCHANGED <<ctrl_running, failure, running, expired, local_em, cycle_count,
                   active_directions, green_semaphore, vehicles,
                   emergency_queue, traffic_density, stats, counting, logging, tracking, vp_local, last_call, stop_admits>>

\* a RED phase that tests the running flag first and leaves the loop on stop
YellowToRedBreak(d) ==
    /\ pc[d] = "yellow"
    /\ NotLogging(d)
    /\ state' = [state EXCEPT ![d] = "RED"]
    /\ pc' = [pc EXCEPT ![d] = IF running[d] THEN "r_exit" ELSE "done"]
    /\ UNCHANGED <<ctrl_running, failure, running, expired, local_em, cycle_count,
                   green_time, active_directions, green_semaphore, vehicles,
                   emergency_queue, traffic_density, stats, event_log, log_call, counting, logging, tracking, vp_local, last_call, stop_admits>>

\* after the yellow sleep: RED phase, self.state = RED
YellowToRed(d) ==
    /\ pc[d] = "yellow"
    /\ NotLogging(d)
    /\ state' = [state EXCEPT ![d] = "RED"]
    /\ pc' = [pc EXCEPT ![d] = "r_exit"]
    /\ UNCHANGED <<ctrl_running, failure, running, expired, local_em, cycle_count,
                   green_time, active_directions, green_semaphore, vehicles,
                   emergency_queue, traffic_density, stats, event_log, log_call, counting, logging, tracking, vp_local, last_call, stop_admits>>

\* RED phase: exit_intersection, cycle_count += 1, then the 2 s red sleep
RedExit(d) ==
    /\ pc[d] = "r_exit"
    /\ NotLogging(d)
    /\ exit_intersection(d)
    /\ cycle_count' = [cycle_count EXCEPT ![d] = IF counting THEN @ + 1 ELSE @]
    /\ pc' = [pc EXCEPT ![d] = "loop"]
    /\ UNCHANGED <<ctrl_running, failure, state, running, expired, local_em,
                   green_time, vehicles, emergency_queue, traffic_density, stats, counting, logging, tracking, vp_local, last_call, stop_admits>>

\* The two halves of enter_intersection and of exit_intersection, taken one
\* at a time.  green_semaphore.acquire() comes before the locked block of
\* enter_intersection and green_semaphore.release() after the locked block
\* of exit_intersection, so a thread between the two halves holds a token
\* without being a member.  GreenEnter, EmergencyEnter, RedExit and
\* EmergencyExit take both halves in one step; the actions below take them
\* separately.

\* green_semaphore.release() with a surplus token
green_semaphore_release_twice == green_semaphore' = green_semaphore + 2

\* enter_intersection: green_semaphore.acquire()
green_semaphore_acquire == green_semaphore > 0 /\ green_semaphore' = green_semaphore - 1

\* exit_intersection: green_semaphore.release()
green_semaphore_release == green_semaphore' = green_semaphore + 1

\* enter_intersection: the block under the lock
enter_locked(d, is_emergency) ==
    /\ LockFree
    /\ counting => stats.total_cycles < MaxCycles
    /\ active_directions' = Append(active_directions, d)
    /\ Log(d, <<IF is_emergency THEN "EMERGENCY" ELSE "GREEN", d>>, TRUE)
    /\ Count([stats EXCEPT
                !.total_cycles = @ + 1,
                !.emergency_responses = IF is_emergency THEN @ + 1 ELSE @])
    /\ stop_admits' = [stop_admits EXCEPT ![d] = IF tracking /\ ~running[d] THEN @ + 1 ELSE @]

\* exit_intersection: the block under the lock
exit_locked(d) ==
    /\ LockFree
    /\ active_directions' = ListRemove(active_directions, d)
    /\ IF InList(d, active_directions) THEN Log(d, <<"RED", d>>, TRUE) ELSE UNCHANGED <<event_log, log_call>>

\* GREEN phase, enter_intersection: the thread takes a capacity token
GreenAcquire(d) ==
    /\ pc[d] = "g_enter"
    /\ NotLogging(d)
    /\ green_semaphore_acquire
    /\ pc' = [pc EXCEPT ![d] = "g_lock"]
    /\ UNCHANGED <<ctrl_running, failure, state, running, expired, local_em,
                   cycle_count, green_time, active_directions, vehicles, emergency_queue,
                   traffic_density, stats, event_log, log_call, counting, logging, tracking,
                   vp_local, last_call, stop_admits>>

\* GREEN phase, enter_intersection: the thread joins active_directions
GreenAdmit(d) ==
    /\ pc[d] = "g_lock"
    /\ NotLogging(d)
    /\ enter_locked(d, FALSE)
    /\ pc' = [pc EXCEPT ![d] = "vp_load"]
    /\ UNCHANGED <<ctrl_running, failure, state, running, expired, local_em,
                   cycle_count, green_time, green_semaphore, vehicles, emergency_queue,
                   traffic_density, counting, logging, tracking, vp_local, last_call>>

\* handle_emergency, enter_intersection: the thread takes a capacity token
EmergencyAcquire(d) ==
    /\ pc[d] = "em_enter"
    /\ NotLogging(d)
    /\ green_semaphore_acquire
    /\ pc' = [pc EXCEPT ![d] = "em_lock"]
    /\ UNCHANGED <<ctrl_running, failure, state, running, expired, local_em,
                   cycle_count, green_time, active_directions, vehicles, emergency_queue,
                   traffic_density, stats, event_log, log_call, counting, logging, tracking,
                   vp_local, last_call, stop_admits>>

\* handle_emergency, enter_intersection: the thread joins active_directions
EmergencyAdmitLocked(d) ==
    /\ pc[d] = "em_lock"
    /\ NotLogging(d)
    /\ enter_locked(d, TRUE)
    /\ pc' = [pc EXCEPT ![d] = "em_hold"]
    /\ UNCHANGED <<ctrl_running, failure, state, running, expired, local_em,
                   cycle_count, green_time, green_semaphore, vehicles, emergency_queue,
                   traffic_density, counting, logging, tracking, vp_local, last_call>>

\* RED phase, exit_intersection: the thread leaves active_directions
RedRemove(d) ==
    /\ pc[d] = "r_exit"
    /\ NotLogging(d)
    /\ exit_locked(d)
    /\ pc' = [pc EXCEPT ![d] = "r_release"]
    /\ UNCHANGED <<ctrl_running, failure, state, running, expired, local_em,
                   cycle_count, green_time, green_semaphore, vehicles, emergency_queue,
                   traffic_density, stats, counting, logging, tracking, vp_local, last_call, stop_admits>>

\* RED phase, exit_intersection: the thread returns its token; then
\* cycle_count += 1 and the 2 s red sleep
RedRelease(d) ==
    /\ pc[d] = "r_release"
    /\ NotLogging(d)
    /\ green_semaphore_release
    /\ cycle_count' = [cycle_count EXCEPT ![d] = IF counting THEN @ + 1 ELSE @]
    /\ pc' = [pc EXCEPT ![d] = "loop"]
    /\ UNCHANGED <<ctrl_running, failure, state, running, expired, local_em,
                   green_time, active_directions, vehicles, emergency_queue,
                   traffic_density, stats, event_log, log_call, counting, logging, tracking,
                   vp_local, last_call, stop_admits>>

\* handle_emergency, exit_intersection: the thread leaves active_directions
EmergencyRemove(d) ==
    /\ pc[d] = "em_exit"
    /\ NotLogging(d)
    /\ exit_locked(d)
    /\ pc' = [pc EXCEPT ![d] = "em_release"]
    /\ UNCHANGED <<ctrl_running, failure, state, running, expired, local_em,
                   cycle_count, green_time, green_semaphore, vehicles, emergency_queue,
                   traffic_density, stats, counting, logging, tracking, vp_local, last_call, stop_admits>>

\* handle_emergency, exit_intersection: the thread returns its token, then
\* return True and continue
EmergencyRelease(d) ==
    /\ pc[d] = "em_release"
    /\ NotLogging(d)
    /\ green_semaphore_release
    /\ pc' = [pc EXCEPT ![d] = "loop"]
    /\ local_em' = [local_em EXCEPT ![d] = None]
    /\ UNCHANGED <<ctrl_running, failure, state, running, expired, cycle_count,
                   green_time, active_directions, vehicles, emergency_queue,
                   traffic_density, stats, event_log, log_call, counting, logging, tracking,
                   vp_local, last_call, stop_admits>>

\* an exception raised inside the try block of run() while the thread sleeps
\* in its green or yellow phase (time.sleep raises ValueError on a negative
\* duration): the except clause logs the error and breaks out of the loop;
\* there is no finally clause, so nothing else runs
Fail(d) ==
    /\ pc[d] \in {"green", "yellow"}
    /\ NotLogging(d)
    /\ Cardinality({c \in Directions : pc[c] = "done"}) < MaxFailures
    /\ pc' = [pc EXCEPT ![d] = "done"]
    /\ Log(d, <<"ERROR", d>>, FALSE)
    /\ UNCHANGED <<ctrl_running, failure, state, running, expired, local_em, cycle_count,
                   green_time, active_directions, green_semaphore, vehicles,
                   emergency_queue, traffic_density, stats, counting, logging, tracking, vp_local,
                   last_call, stop_admits>>

\* trigger_emergency(0, d) by the environment: at most max vehicles, from dirs
Dispatch(dirs, max) ==
    /\ NotLogging("MAIN")
    /\ Len(vehicles) < max
    /\ \E d \in dirs : add_emergency_vehicle(d)

\* update_traffic_density(0, d, v) by the environment, for d in dirs and v
\* in values
UpdateDensity(dirs, values) ==
    /\ NotLogging("MAIN")
    /\ \E d \in dirs, v \in values : update_traffic_density(d, v)
    /\ UNCHANGED <<ctrl_running, failure, pc, state, running, expired, local_em,
                   cycle_count, green_time, active_directions, green_semaphore, vehicles,
                   emergency_queue, stats, event_log, log_call, counting, logging, tracking, vp_local, last_call, stop_admits>>

\* the densities the environment sets in DensitySpec: one below the range,
\* one inside, one above
DensityInputs == {0 - 20, 30, 120}

\* the densities the environment sets in TimingSpec: every value of the
\* range and DensityMargin values on either side
DensityRange == (0 - DensityMargin)..(100 + DensityMargin)

\* the directions emergencies come from in Spec: one of each axis (the
\* intersection is symmetric under NORTH<->SOUTH, EAST<->WEST and the swap
\* of the two axes)
EmergencyDirs == {"NORTH", "EAST"}

\* one step of the signal thread of direction d
Step(d) ==
    \/ LoopTop(d)
    \/ HandleEmergencyPut(d)
    \/ EmergencyEnter(d)
    \/ EmergencyHandled(d)
    \/ EmergencyExit(d)
    \/ WaitPoll(d)
    \/ WaitPollPut(d)
    \/ GreenEnter(d)
    \/ VehiclesLoad(d)
    \/ VehiclesStore(d)
    \/ GreenToYellow(d)
    \/ YellowToRed(d)
    \/ RedExit(d)

\* one step of the signal thread of direction d, with the two halves of
\* enter_intersection and of exit_intersection as separate steps
StepByHalves(d) ==
    \/ LoopTop(d)
    \/ HandleEmergencyPut(d)
    \/ EmergencyAcquire(d)
    \/ EmergencyAdmitLocked(d)
    \/ EmergencyHandled(d)
    \/ EmergencyRemove(d)
    \/ EmergencyRelease(d)
    \/ WaitPoll(d)
    \/ WaitPollPut(d)
    \/ GreenAcquire(d)
    \/ GreenAdmit(d)
    \/ VehiclesLoad(d)
    \/ VehiclesStore(d)
    \/ GreenToYellow(d)
    \/ YellowToRed(d)
    \/ RedRemove(d)
    \/ RedRelease(d)

----------------------------------------------------------------------------
(* Specifications.  Each one is the program under an environment: which of  *)
(* start, stop, trigger_emergency and the passing of time occur.            *)

\* the whole environment
Next ==
    \/ Start
    \/ Stop
    \/ Dispatch(EmergencyDirs, MaxEmergencies)
    \/ \E d \in Directions : Tick(d)
    \/ \E d \in Directions : Step(d)

Spec == Init /\ [][Next]_vars

\* several emergencies from two conflicting directions, a controller that
\* is never stopped and no starvation timeout
QueueNext ==
    \/ Start
    \/ Dispatch(EmergencyDirs, MaxQueued)
    \/ \E d \in Directions : Step(d)

\* several emergencies from one direction, a controller that is never
\* stopped and no starvation timeout
PendingNext ==
    \/ Start
    \/ Dispatch({"NORTH"}, MaxQueued)
    \/ \E d \in Directions : Step(d)

\* a controller that is never stopped, one emergency (from NORTH, which by
\* symmetry stands for any direction), starvation timeouts
LiveNext ==
    \/ Start
    \/ Dispatch({"NORTH"}, MaxFair)
    \/ \E d \in Directions : Tick(d)
    \/ \E d \in Directions : Step(d)

\* a controller that is stopped at any moment, one emergency, no timeout
StopNext ==
    \/ Start
    \/ Stop
    \/ Dispatch({"NORTH"}, MaxFair)
    \/ \E d \in Directions : Step(d)

\* a controller that is never stopped, one emergency, no timeout
RunNext ==
    \/ Start
    \/ Dispatch({"NORTH"}, MaxFair)
    \/ \E d \in Directions : Step(d)

\* a controller that is never stopped, one emergency, density updates for
\* NORTH
DensityNext ==
    \/ Start
    \/ Dispatch({"NORTH"}, MaxFair)
    \/ UpdateDensity({"NORTH"}, DensityInputs)
    \/ \E d \in Directions : Step(d)

\* density updates alone, on a constructed controller
TimingNext == UpdateDensity({"NORTH"}, DensityRange)

\* every call of start() and stop(), in any order, one emergency, no timeout
CtrlNext ==
    \/ Start
    \/ StartRunning
    \/ Restart
    \/ Stop
    \/ StopIdle
    \/ Dispatch({"NORTH"}, MaxFair)
    \/ \E d \in Directions : Step(d)

\* Scheduling: every signal is a live thread; a thread that waits for the
\* lock or for a semaphore token gets it if it is free again and again
\* (strong fairness), and the clock advances.  start, stop and
\* trigger_emergency are the environment's and carry no fairness.
Fairness == \A d \in Directions : SF_vars(Step(d)) /\ WF_vars(Tick(d))

QueueSpec == Init /\ [][QueueNext]_vars

PendingSpec == Init /\ [][PendingNext]_vars /\ Fairness
FairSpec == Init /\ [][LiveNext]_vars /\ Fairness
FairStopSpec == Init /\ [][StopNext]_vars /\ Fairness

CtrlSpec == Init /\ [][CtrlNext]_vars

DensitySpec == Init /\ [][DensityNext]_vars

TimingSpec == Init /\ [][TimingNext]_vars

\* start, stop and one emergency, with statistics recorded
StatSpec == CountingInit /\ [][StopNext]_vars

\* a running controller and one emergency, with statistics recorded
RaceSpec == CountingInit /\ [][RunNext]_vars

\* a controller that is stopped at any moment, with the return of stop(),
\* one emergency, no timeout
JoinNext ==
    \/ Start
    \/ Stop
    \/ StopReturn
    \/ Dispatch({"NORTH"}, MaxFair)
    \/ \E d \in Directions : Step(d)

JoinSpec == Init /\ [][JoinNext]_vars

\* the environment of PendingSpec, with statistics recorded
IdSpec == CountingInit /\ [][PendingNext]_vars

\* the environment of Spec, with the admissions after a stop recorded
StopCountSpec == TrackingInit /\ [][Next]_vars

\* the environment of Spec, with the token and the membership of a signal
\* changed in separate steps
TokenNext ==
    \/ Start
    \/ Stop
    \/ Dispatch(EmergencyDirs, MaxEmergencies)
    \/ \E d \in Directions : Tick(d)
    \/ \E d \in Directions : StepByHalves(d)

TokenSpec == Init /\ [][TokenNext]_vars

\* a controller that is never stopped, one emergency, and signal threads
\* whose loop raises
FailNext ==
    \/ Start
    \/ Dispatch({"NORTH"}, MaxFair)
    \/ \E d \in Directions : Step(d)
    \/ \E d \in Directions : Fail(d)

FailSpec == Init /\ [][FailNext]_vars

\* a controller that is never stopped, one emergency, the callers of
\* log_event inside its except branch, and the monitoring page's drain
LogNext ==
    \/ Start
    \/ Dispatch({"NORTH"}, MaxFair)
    \/ \E d \in Directions : Step(d)
    \/ \E c \in Callers : LogGet(c)
    \/ \E c \in Callers : LogPut(c)
    \/ Drain

\* the same, with the event log recorded
LogSpec == LoggingInit /\ [][LogNext]_vars

----------------------------------------------------------------------------
(* Claims *)

Holding(d) ==
    pc[d] \in {"vp_load", "vp_store", "green", "yellow", "r_exit", "em_hold", "em_exit"}

Occurrences(d) == Cardinality({i \in DOMAIN active_directions : active_directions[i] = d})

Unhandled == {e \in DOMAIN vehicles : ~vehicles[e].handled}

\* C1: active_directions never holds two conflicting directions: it holds no
\* direction, one direction, or one opposing pair
ClaimC1 ==
    /\ Len(active_directions) <= 2
    /\ \A i, j \in DOMAIN active_directions :
          i # j => active_directions[j] = get_opposing_direction(active_directions[i])

\* C2: active_directions never has more than 2 members, and while it has 2
\* no further admit (ordinary, forced or emergency) can complete: no token
\* is free until a direction releases
ClaimC2 ==
    /\ Len(active_directions) <= 2
    /\ Len(active_directions) = 2 =>
          /\ green_semaphore = 0
          /\ \A d \in Directions : ~ENABLED GreenEnter(d) /\ ~ENABLED EmergencyEnter(d)

\* C2 witness: two directions are active and a third thread, whose conflict
\* check denied (it was forced by the timeout or is an emergency), waits for
\* a token
WitnessC2 ==
    /\ Len(active_directions) = 2
    /\ \E d \in Directions : pc[d] \in {"g_enter", "em_enter"} /\ ConflictActive(d)

\* C3: while an unhandled emergency exists for a direction, no ordinary
\* admission of another direction completes
ClaimC3 ==
    [][\A d \in Directions :
          (pc[d] = "g_enter" /\ pc'[d] = "vp_load")
             => \A e \in Unhandled : vehicles[e].direction = d]_vars

ClaimC5 ==
    /\ \A d \in Directions :
          (pc[d] \in {"wft", "cp_put"} /\ expired[d]) ~> InList(d, active_directions)
    /\ [][\A d \in Directions :
             (expired[d] /\ pc'[d] # pc[d])
                => \/ pc[d] = "wft" /\ pc'[d] \in {"cp_put", "g_enter"}
                   \/ pc[d] = "cp_put" /\ pc'[d] = "g_enter"]_vars

\* C5, strict reading: past the deadline the thread makes no further
\* can_proceed call (whose peek takes the head of the emergency queue): its
\* next poll admits it directly
ClaimC5NoCheck ==
    /\ \A d \in Directions :
          (pc[d] \in {"wft", "cp_put"} /\ expired[d]) ~> InList(d, active_directions)
    /\ [][\A d \in Directions :
             (expired[d] /\ pc[d] = "wft" /\ pc'[d] # pc[d])
                => pc'[d] = "g_enter" /\ emergency_queue' = emergency_queue]_vars

\* C5 witness: a thread past its deadline, which can_proceed still denies,
\* has been let through and waits for its token
WitnessC5 ==
    \E d \in Directions :
        pc[d] = "g_enter" /\ ~can_proceed(d, PeekResult(IF emergency_queue = {} THEN None
                                                        ELSE QueueHead(emergency_queue)))

\* C6: with the controllers running, every dispatched emergency is
\* eventually marked handled
ClaimC6 ==
    \A e \in 1..MaxQueued :
        (ctrl_running /\ Len(vehicles) >= e) ~> (Len(vehicles) >= e /\ vehicles[e].handled)

\* C7: emergencies are handled in arrival order: a handled request has no
\* unhandled request dispatched before it
ClaimC7 ==
    \A e1, e2 \in DOMAIN vehicles :
        (e1 < e2 /\ vehicles[e2].handled) => vehicles[e1].handled

\* the earliest-dispatched unhandled request, or None
EarliestUnhandled ==
    IF Unhandled = {} THEN None
    ELSE CHOOSE e \in Unhandled : \A f \in Unhandled : e <= f

\* C8: with every request in the queue (no peek in flight), the peek returns
\* the earliest-dispatched unhandled request, and None only if there is none
ClaimC8 ==
    (emergency_queue = DOMAIN vehicles /\ emergency_queue # {})
        => PeekResult(QueueHead(emergency_queue)) = EarliestUnhandled

\* C9: a handled flag never goes back to false, it is set only by the thread
\* of the request's own direction (at the end of its emergency hold), and a
\* request that is handled is not served again
ClaimC9 ==
    /\ [][\A e \in DOMAIN vehicles :
             /\ vehicles[e].handled => vehicles'[e].handled
             /\ (~vehicles[e].handled /\ vehicles'[e].handled)
                   => LET d == vehicles[e].direction
                      IN  pc[d] = "em_hold" /\ local_em[d] = e /\ pc'[d] = "em_exit"]_vars
    /\ [](\A d \in Directions :
             pc[d] \in {"em_enter", "em_hold"} => ~vehicles[local_em[d]].handled)

\* C9 witness: a request has been marked handled
WitnessC9 == \E e \in DOMAIN vehicles : vehicles[e].handled

\* the state changes the signal state machine allows
AllowedChanges ==
    {<<"RED", "GREEN">>, <<"GREEN", "YELLOW">>, <<"YELLOW", "RED">>,
     <<"RED", "EMERGENCY">>, <<"EMERGENCY", "RED">>}

\* C10: every state change of a signal is RED->GREEN, GREEN->YELLOW,
\* YELLOW->RED, RED->EMERGENCY or EMERGENCY->RED
ClaimC10 ==
    [][\A d \in Directions :
          state'[d] # state[d] => <<state[d], state'[d]>> \in AllowedChanges]_vars

AllExited == \A d \in Directions : pc[d] = "done"

\* C11: after stop is signalled every signal thread eventually leaves its
\* loop; a thread that has left does not have its direction in
\* active_directions; once all have left, active_directions is empty and
\* both tokens are free
ClaimC11 ==
    /\ (last_call = "stop") ~> AllExited
    /\ [](\A d \in Directions : pc[d] = "done" => ~InList(d, active_directions))
    /\ [](AllExited => active_directions = <<>> /\ green_semaphore = SemaphoreTokens)

\* C11 witness: all four threads have left their loops after a stop, NORTH
\* having served an emergency and another signal having completed a cycle
WitnessC11 ==
    /\ AllExited
    /\ last_call = "stop"
    /\ \E e \in DOMAIN vehicles : vehicles[e].handled
    /\ \E d \in Directions : state[d] = "RED" /\ d # "NORTH"

\* every variable of the program (all but the record of the user's last call)
ProgramVars ==
    <<ctrl_running, failure, pc, state, running, expired, local_em, cycle_count,
      green_time, active_directions, green_semaphore, vehicles, emergency_queue,
      traffic_density, stats, event_log, log_call, vp_local>>

\* C12: start() called while the controller is running changes nothing: no
\* thread is started again and no controller or intersection state changes
ClaimC12 ==
    [][(ctrl_running /\ last_call' = "start_running" /\ last_call # "start_running")
          => UNCHANGED ProgramVars]_vars

\* C12 witness: start() has been called on a running controller, whose
\* threads go on (one is mid-GREEN) and which has seen no failure
WitnessC12 ==
    /\ last_call = "start_running"
    /\ ctrl_running /\ ~failure
    /\ \E d \in Directions : pc[d] = "green"

\* C13: no sequence of start() and stop() calls ends in a failure
ClaimC13 == ~failure

\* C14: total_cycles, vehicles_passed, emergency_responses and
\* deadlock_preventions never decrease
ClaimC14 ==
    [][/\ stats'.total_cycles >= stats.total_cycles
       /\ stats'.vehicles_passed >= stats.vehicles_passed
       /\ stats'.emergency_responses >= stats.emergency_responses
       /\ stats'.deadlock_preventions >= stats.deadlock_preventions]_vars

\* ordinary admissions whose addition to vehicles_passed is complete
AdditionsDone ==
    stats.total_cycles - stats.emergency_responses
       - Cardinality({d \in Directions : pc[d] \in {"vp_load", "vp_store"}})

\* C15: no update of vehicles_passed is lost: the counter is the sum of the
\* amounts added so far, each one in VehiclesLo..VehiclesHi, so it lies
\* between VehiclesLo and VehiclesHi times the number of completed additions
ClaimC15 ==
    /\ stats.vehicles_passed >= VehiclesLo * AdditionsDone
    /\ stats.vehicles_passed <= VehiclesHi * AdditionsDone

\* C16: for a fixed base, a larger density never gives a shorter adaptive
\* green time: across every change of a density from d1 to d2 > d1 the
\* adaptive green time does not decrease
ClaimC16 ==
    [][\A d \in Directions :
          traffic_density[d] < traffic_density'[d]
             => get_adaptive_green_time(d, BaseGreenTime)
                   <= get_adaptive_green_time(d, BaseGreenTime)']_vars

\* C16 witness: the density of NORTH has been set inside the range, and the
\* adaptive green time is the one of that density
WitnessC16 ==
    /\ traffic_density["NORTH"] = 57
    /\ get_adaptive_green_time("NORTH", BaseGreenTime) = 535

\* C17: the adaptive green time is base * (50 + density) / 100 (here in
\* hundredths), between 50% and 150% of base, 2.5 at density 0 and 7.5 at
\* density 100 for base 5; the thread that computes it for its cycle gets
\* that value, and the computation changes nothing of the intersection
ClaimC17 ==
    /\ [](\A d \in Directions :
             LET t == get_adaptive_green_time(d, BaseGreenTime)
             IN  /\ t = BaseGreenTime * (50 + traffic_density[d])
                 /\ 50 * BaseGreenTime <= t /\ t <= 150 * BaseGreenTime
                 /\ traffic_density[d] = 0 => t = 250
                 /\ traffic_density[d] = 100 => t = 750)
    /\ [][\A d \in Directions :
             (pc[d] # "g_enter" /\ pc'[d] = "g_enter")
                => /\ green_time'[d] = BaseGreenTime * (50 + traffic_density[d])
                   /\ UNCHANGED <<traffic_density, active_directions, green_semaphore,
                                  vehicles>>]_vars

\* C17 witness: NORTH has computed its green time at density 100 and a
\* signal whose density is 0 has computed its own
WitnessC17 ==
    /\ pc["NORTH"] = "g_enter" /\ green_time["NORTH"] = 750
    /\ \E d \in Directions : pc[d] = "green" /\ green_time[d] = 250

\* every variable but traffic_density
AllButDensity ==
    <<ctrl_running, failure, pc, state, running, expired, local_em, cycle_count,
      green_time, active_directions, green_semaphore, vehicles, emergency_queue,
      stats, event_log, log_call, counting, logging, vp_local, last_call>>

\* C18: every density is within 0..100 in every state; a density changes
\* only by an update_density call, which stores its value clamped to
\* 0..100, and by no step of a signal thread
ClaimC18 ==
    /\ [](\A d \in Directions : traffic_density[d] \in 0..100)
    /\ [][\A d \in Directions :
             traffic_density'[d] # traffic_density[d]
                => /\ \E v \in DensityInputs :
                         traffic_density'[d] = (IF v < 0 THEN 0 ELSE IF v > 100 THEN 100 ELSE v)
                   /\ UNCHANGED AllButDensity]_vars

\* C18 witness: a value above the range has been stored as 100 while a
\* signal thread is mid-cycle
WitnessC18 ==
    /\ traffic_density["NORTH"] = 100
    /\ \E d \in Directions : pc[d] = "yellow"

\* a poll of d completes: can_proceed has its peek's result and decides
PollCompletes(d) ==
    \/ WaitPoll(d) /\ running[d] /\ emergency_queue = {}
    \/ WaitPollPut(d)

\* C19: when one of NORTH and SOUTH is the only active direction and no
\* emergency is pending, can_proceed answers True to the other, the other's
\* poll ends with GREEN shown, and both are then members of active_directions
\* together
ClaimC19 ==
    /\ [](\A d \in {"NORTH", "SOUTH"} :
             active_directions = <<get_opposing_direction(d)>>
                => can_proceed(d, None))
    /\ [][\A d \in {"NORTH", "SOUTH"} :
             (/\ PollCompletes(d)
              /\ Unhandled = {}
              /\ active_directions = <<get_opposing_direction(d)>>)
                => pc'[d] = "g_enter" /\ state'[d] = "GREEN"]_vars
    /\ [][\A d \in {"NORTH", "SOUTH"} :
             (/\ GreenEnter(d)
              /\ Unhandled = {}
              /\ active_directions = <<get_opposing_direction(d)>>)
                => active_directions' = <<get_opposing_direction(d), d>>]_vars

\* NORTH and SOUTH are green together with nothing else active and no
\* emergency ever dispatched
WitnessC19 ==
    /\ vehicles = <<>>
    /\ pc["NORTH"] = "green" /\ pc["SOUTH"] = "green"
    /\ state["NORTH"] = "GREEN" /\ state["SOUTH"] = "GREEN"
    /\ active_directions \in {<<"NORTH", "SOUTH">>, <<"SOUTH", "NORTH">>}

\* C20, as stated: while EAST alone is active and no emergency is pending, a
\* poll of WEST is denied: WEST is not admitted, deadlock_preventions grows by
\* one and WEST's signal stays as it was
ClaimC20Opposing ==
    [][(/\ PollCompletes("WEST")
        /\ Unhandled = {}
        /\ active_directions = <<"EAST">>)
          => /\ pc'["WEST"] = "wft"
             /\ stats'.deadlock_preventions = stats.deadlock_preventions + 1
             /\ state'["WEST"] = state["WEST"]]_vars

\* C20: while EAST is active, a poll of NORTH or SOUTH that meets no emergency
\* for another direction is denied before the starvation deadline: the
\* direction is not admitted, deadlock_preventions grows by exactly one and the
\* signal stays as it was; a poll of WEST with EAST alone active is granted
\* and changes no counter of denials
ClaimC20 ==
    /\ [][\A d \in {"NORTH", "SOUTH"} :
             (/\ PollCompletes(d)
              /\ Unhandled = {}
              /\ ~expired[d]
              /\ InList("EAST", active_directions))
                => /\ pc'[d] = "wft"
                   /\ stats'.deadlock_preventions = stats.deadlock_preventions + 1
                   /\ state'[d] = state[d]]_vars
    /\ [][(/\ PollCompletes("WEST")
            /\ Unhandled = {}
            /\ active_directions = <<"EAST">>)
              => /\ pc'["WEST"] = "g_enter"
                 /\ state'["WEST"] = "GREEN"
                 /\ stats'.deadlock_preventions = stats.deadlock_preventions]_vars

\* EAST is active, NORTH has been denied once and still waits on RED
WitnessC20 ==
    /\ InList("EAST", active_directions)
    /\ Unhandled = {}
    /\ stats.deadlock_preventions = 1
    /\ pc["NORTH"] = "wft" /\ state["NORTH"] = "RED" /\ cycle_count["NORTH"] = 0
    /\ pc["SOUTH"] = "wft" /\ cycle_count["SOUTH"] = 0
    /\ pc["WEST"] = "wft" /\ cycle_count["WEST"] = 0

\* everything but the emergency queue, the vehicles created and the event log
AllButEmergency ==
    <<ctrl_running, failure, pc, state, running, expired, local_em, cycle_count,
      green_time, active_directions, green_semaphore, traffic_density, stats,
      counting, logging, vp_local, last_call>>

\* the thread of d is inside an ordinary GREEN/YELLOW/RED hold
OrdinaryHold(d) == pc[d] \in {"vp_load", "vp_store", "green", "yellow", "r_exit"}

\* C21: a dispatch changes only the emergency queue (with the vehicle it
\* creates) and the event log; a direction that is inside an ordinary hold
\* goes on through GREEN, YELLOW and RED in that order, whatever is
\* dispatched, and releases
ClaimC21 ==
    /\ [][Len(vehicles') > Len(vehicles) => UNCHANGED AllButEmergency]_vars
    /\ [][\A d \in Directions :
             /\ pc[d] \in {"vp_load", "vp_store", "green"} /\ pc'[d] # "yellow"
                   => state'[d] = "GREEN" /\ InList(d, active_directions')
             /\ pc[d] = "yellow" /\ pc'[d] = "yellow"
                   => state'[d] = "YELLOW" /\ InList(d, active_directions')
             /\ pc[d] = "yellow" /\ pc'[d] # "yellow"
                   => pc'[d] = "r_exit" /\ state'[d] = "RED"
                         /\ InList(d, active_directions')
             /\ pc[d] = "r_exit" /\ pc'[d] # "r_exit"
                   => pc'[d] = "loop" /\ ~InList(d, active_directions')]_vars
    /\ \A d \in Directions :
          (OrdinaryHold(d) /\ Unhandled # {}) ~> (pc[d] = "loop")

\* EAST has gone through its hold to RED and is about to release while the
\* emergency for NORTH is still unhandled
WitnessC21 ==
    /\ \E e \in Unhandled : vehicles[e].direction = "NORTH"
    /\ pc["EAST"] = "r_exit" /\ state["EAST"] = "RED"
    /\ InList("EAST", active_directions)

\* C22: the event log never holds more than its capacity, and a log_event
\* call that found the log full and removed the oldest entry returns with
\* its own entry stored as the newest one
ClaimC22 ==
    /\ [](Len(event_log) <= LogMax)
    /\ [][\A c \in Callers :
             (log_call[c].stage = "put" /\ log_call'[c].stage = "idle")
                => /\ event_log' # <<>>
                   /\ event_log'[Len(event_log')] = log_call[c].msg]_vars

\* the thread of d is inside handle_emergency's emergency iteration
EmergencyIteration(d) == pc[d] \in {"em_enter", "em_hold", "em_exit"}

\* C23: cycle_count never decreases; it changes only in the step that ends
\* an ordinary cycle with its release, and then by exactly 1; no step of an
\* emergency iteration changes it
ClaimC23 ==
    [][\A d \in Directions :
          /\ cycle_count'[d] >= cycle_count[d]
          /\ cycle_count'[d] # cycle_count[d]
                => /\ cycle_count'[d] = cycle_count[d] + 1
                   /\ pc[d] = "r_exit" /\ pc'[d] = "loop"
                   /\ state[d] = "RED"
                   /\ ~InList(d, active_directions')
          /\ pc[d] = "r_exit" /\ pc'[d] # "r_exit"
                => cycle_count'[d] = cycle_count[d] + 1
          /\ EmergencyIteration(d) => cycle_count'[d] = cycle_count[d]]_vars

\* NORTH has served its emergency and completed one ordinary cycle: two
\* admissions, one cycle counted
WitnessC23 ==
    /\ cycle_count["NORTH"] = 1
    /\ stats.emergency_responses = 1
    /\ stats.total_cycles = 2
    /\ \A d \in Directions \ {"NORTH"} : cycle_count[d] = 0 /\ ~Holding(d)

\* an unhandled emergency is pending for a direction other than d
EmergencyForOther(d) == \E e \in Unhandled : vehicles[e].direction # d

\* C24: a completed can_proceed(d) never changes active_directions; while an
\* unhandled emergency is pending for another direction it denies and leaves
\* deadlock_preventions alone; otherwise it denies and adds exactly 1 to
\* deadlock_preventions if and only if a conflicting direction is active
ClaimC24 ==
    [][\A d \in Directions :
          PollCompletes(d)
             => /\ active_directions' = active_directions
                /\ EmergencyForOther(d)
                      => /\ pc'[d] = "wft"
                         /\ stats'.deadlock_preventions = stats.deadlock_preventions
                /\ ~EmergencyForOther(d)
                      => /\ ConflictActive(d) <=> pc'[d] = "wft"
                         /\ stats'.deadlock_preventions =
                               stats.deadlock_preventions
                                  + (IF ConflictActive(d) THEN 1 ELSE 0)]_vars

\* the step of d is a completed enter_intersection, ordinary or emergency
OrdinaryAdmit(d) == pc[d] = "g_enter" /\ pc'[d] = "vp_load"

EmergencyAdmit(d) == pc[d] = "em_enter" /\ pc'[d] = "em_hold"

\* C25: a completed admit appends its direction to active_directions and
\* adds exactly 1 to total_cycles; it adds exactly 1 to emergency_responses
\* if it is an emergency admit and leaves it alone otherwise; no other step
\* changes total_cycles or emergency_responses
ClaimC25 ==
    [][/\ \A d \in Directions :
             /\ OrdinaryAdmit(d) \/ EmergencyAdmit(d)
                   => /\ active_directions' = Append(active_directions, d)
                      /\ stats'.total_cycles = stats.total_cycles + 1
             /\ OrdinaryAdmit(d)
                   => stats'.emergency_responses = stats.emergency_responses
             /\ EmergencyAdmit(d)
                   => stats'.emergency_responses = stats.emergency_responses + 1
       /\ (\/ stats'.total_cycles # stats.total_cycles
           \/ stats'.emergency_responses # stats.emergency_responses)
             => \E d \in Directions : OrdinaryAdmit(d) \/ EmergencyAdmit(d)]_vars

\* an emergency admit and an ordinary admit have both completed and both
\* directions are still members
WitnessC25 ==
    /\ stats.total_cycles = 2
    /\ stats.emergency_responses = 1
    /\ Len(active_directions) = 2
    /\ \E d \in Directions : pc[d] = "em_hold"

\* an unhandled emergency is pending for d's own direction
EmergencyForOwn(d) == \E e \in Unhandled : vehicles[e].direction = d

\* C26: while an unhandled emergency for its own direction exists, a
\* controller is not granted ordinary admission by its poll and completes no
\* ordinary GREEN admit: its next admission is the emergency one
ClaimC26 ==
    [][\A d \in Directions :
          EmergencyForOwn(d)
             => /\ PollCompletes(d) => pc'[d] # "g_enter"
                /\ ~OrdinaryAdmit(d)]_vars

\* C27: a controller whose loop has failed holds nothing: its direction is
\* not a member of active_directions, and every capacity token is free or
\* held by a controller that is still inside its hold
ClaimC27 ==
    /\ \A d \in Directions : pc[d] = "done" => ~InList(d, active_directions)
    /\ green_semaphore + Cardinality({d \in Directions : Holding(d)}) = SemaphoreTokens

\* C28: stop() returns without a failure, and what it reports to its caller
\* on return is a warning if and only if some controller has not terminated
ClaimC28 ==
    /\ [](~failure)
    /\ [][(last_call = "stop" /\ last_call' # "stop")
             => IF \E d \in Directions : pc[d] # "done"
                THEN last_call' = "stop_warning"
                ELSE last_call' = "stop_returned"]_vars

\* C29: in a behaviour without a starvation timeout, as long as no emergency
\* has been dispatched, no two members of active_directions conflict
ClaimC29 ==
    vehicles = <<>>
       => \A i, j \in DOMAIN active_directions :
             active_directions[j] \notin get_conflicting_directions(active_directions[i])

\* the request dispatched last, which the priority -time.time() makes the
\* head of the emergency queue (None before any dispatch)
NewestRequest == Len(vehicles)

\* C30: while the request at the head of the emergency queue is unhandled,
\* every peek that a thread starts returns it, and no poll that completes
\* grants ordinary admission to a direction other than the request's
ClaimC30 ==
    [][\A d \in Directions :
          (NewestRequest # None /\ ~vehicles[NewestRequest].handled)
             => /\ (pc[d] = "loop" /\ running[d] /\ pc'[d] # "loop")
                      => pc'[d] = "he_put" /\ local_em'[d] = NewestRequest
                /\ (pc[d] = "wft" /\ running[d] /\ pc'[d] # "wft")
                      => pc'[d] = "cp_put" /\ local_em'[d] = NewestRequest
                /\ (PollCompletes(d) /\ vehicles[NewestRequest].direction # d)
                      => pc'[d] # "g_enter"]_vars

\* what a peek can return: None or an unhandled request
PeekResults == {None} \cup Unhandled

\* C31: in every reachable state, for every direction and everything the
\* peek can return, can_proceed answers True exactly when the peek returned
\* no emergency for another direction and no conflicting direction is
\* active; its last return False is never reached
ClaimC31 ==
    \A d \in Directions, e \in PeekResults :
        /\ can_proceed(d, e) <=> (~EmergencyBlocks(d, e) /\ ~ConflictActive(d))
        /\ ~(/\ ~EmergencyBlocks(d, e)
              /\ ~ConflictActive(d)
              /\ ~InList(get_opposing_direction(d), active_directions)
              /\ Len(active_directions) >= 2)

\* a direction polls while its opposite alone is active and an emergency
\* of its own direction is pending: the opposing branch gives the answer
WitnessC31 ==
    \E d \in Directions :
        /\ pc[d] = "wft"
        /\ active_directions = <<get_opposing_direction(d)>>
        /\ EmergencyForOwn(d)

\* C32: in every reachable state, the members of active_directions and the
\* free capacity tokens together number at most 2, no direction is a member
\* twice, and there are never more than 2 free tokens; this includes the
\* states in which a thread has taken its token and not yet joined, or has
\* left and not yet returned its token
ClaimC32 ==
    /\ Len(active_directions) + green_semaphore <= SemaphoreTokens
    /\ \A d \in Directions : Occurrences(d) <= 1
    /\ green_semaphore <= SemaphoreTokens
    /\ green_semaphore >= 0

\* a thread has taken the last token and not yet joined the one member
WitnessC32 ==
    \E d \in Directions :
        /\ pc[d] = "g_lock"
        /\ green_semaphore = 0
        /\ Len(active_directions) = 1

\* C33: in every reachable state, a controller whose state is GREEN or
\* YELLOW has its direction in active_directions
ClaimC33 ==
    \A d \in Directions :
        state[d] \in {"GREEN", "YELLOW"} => InList(d, active_directions)

\* C34: in every reachable state, the controller of every member of
\* active_directions is in state GREEN, YELLOW or EMERGENCY
ClaimC34 ==
    \A d \in Directions :
        InList(d, active_directions) => state[d] \in {"GREEN", "YELLOW", "EMERGENCY"}

\* C35: a request goes from unhandled to handled only in a step of the
\* controller of its own direction that is servicing that request, between
\* its emergency admit and its release, with the direction in
\* active_directions before and after the step
ClaimC35 ==
    [][\A e \in DOMAIN vehicles :
          (~vehicles[e].handled /\ vehicles'[e].handled)
             => /\ pc[vehicles[e].direction] = "em_hold"
                /\ local_em[vehicles[e].direction] = e
                /\ InList(vehicles[e].direction, active_directions)
                /\ InList(vehicles[e].direction, active_directions')]_vars

\* a request has just been marked handled by its controller, which is still
\* a member and has its release ahead
WitnessC35 ==
    \E d \in Directions :
        /\ pc[d] = "em_exit"
        /\ local_em[d] # None
        /\ vehicles[local_em[d]].handled
        /\ vehicles[local_em[d]].direction = d
        /\ InList(d, active_directions)

\* C36: in every reachable state, no controller has made more than one
\* admission, ordinary or emergency, since its running flag was cleared
ClaimC36 ==
    \A d \in Directions : stop_admits[d] <= 1

\* a controller that was stopped before its admission is holding the
\* intersection
WitnessC36 ==
    \E d \in Directions :
        /\ ~running[d]
        /\ stop_admits[d] = 1
        /\ InList(d, active_directions)

\* the thread of d is inside wait_for_turn's poll
InPoll(d) == pc[d] \in {"wft", "cp_put"}

\* the thread of d is at enter_intersection and no capacity token is free
BlockedOnToken(d) == pc[d] \in {"g_enter", "em_enter"} /\ green_semaphore = 0

\* C37: with the four controllers started, never stopped and fairly
\* scheduled, every controller is in the intersection again and again and
\* out of it again and again, so it is admitted infinitely often, from the
\* poll and from the wait for a token alike; and in every state some signal
\* thread can take a step
ClaimC37 ==
    /\ \A d \in Directions : []<>(pc[d] = "idle" \/ InList(d, active_directions))
    /\ \A d \in Directions : []<>(~InList(d, active_directions))
    /\ [](ctrl_running => \E d \in Directions : ENABLED Step(d))

\* a thread past its deadline waits for a token while both tokens are held,
\* and another thread is still polling
WitnessC37 ==
    \E d, c \in Directions :
        /\ BlockedOnToken(d)
        /\ InPoll(c)
        /\ ~can_proceed(c, None)

\* C38: in every reachable state, two different emergency requests have
\* different vehicle ids
ClaimC38 ==
    \A e1, e2 \in DOMAIN vehicles :
        e1 # e2 => vehicles[e1].vehicle_id # vehicles[e2].vehicle_id

\* C39: a log_event call of a signal thread that found the log full and
\* went on to its second put_nowait returns with its message in the event log
ClaimC39 ==
    [][\A d \in Directions :
          (log_call[d].stage = "put" /\ log_call'[d].stage = "idle")
             => \E i \in DOMAIN event_log' : event_log'[i] = log_call[d].msg]_vars

\* the sum of the four controllers' cycle_count values
CompletedCycles ==
    cycle_count["NORTH"] + cycle_count["SOUTH"] + cycle_count["EAST"] + cycle_count["WEST"]

\* C40: in every reachable state, emergency_responses is at most
\* total_cycles, and the four cycle_count values add up to at most
\* total_cycles minus emergency_responses
ClaimC40 ==
    /\ stats.emergency_responses <= stats.total_cycles
    /\ CompletedCycles <= stats.total_cycles - stats.emergency_responses

\* one emergency admission and one completed ordinary cycle have been
\* counted
WitnessC40 ==
    /\ stats.emergency_responses = 1
    /\ CompletedCycles = 1
    /\ stats.total_cycles = 2

====
